---- MODULE Spec2Model ----
(***************************************************************************)
(* A model of .scripts/wav_to_cpp.py: the conversion of a 16-bit PCM WAV   *)
(* file into the text of a C++ byte array.                                 *)
(*                                                                         *)
(* Python strings are modelled as sequences of one-character strings.      *)
(* The literal pieces of a format string are kept as single multi-         *)
(* character elements, the interpolated values as their characters.        *)
(***************************************************************************)
EXTENDS Integers, Sequences, FiniteSets, TLC

VARIABLES
    pc,           \* position of the run
    input_file,   \* args.input_file, as typed on the command line
    opt_output,   \* the -o option: [given, value]
    args_output,  \* args.output after parse_args
    wav,          \* the input WAV file as found on disk
    dirs,         \* the directories that exist (absolute paths)
    files,        \* the output files that exist: path -> content
    stdout,       \* the texts printed to standard output, in order
    stderr,       \* the texts printed to the error stream, in order
    status,       \* <<>> while the process runs, then <<exit status>>
    var_name,     \* local of main / result of sanitize_var_name
    cpp_code,     \* local of main / result of wav_to_c_array
    disk0         \* history: dirs and files as they were when the run began

vars == <<pc, input_file, opt_output, args_output, wav, dirs, files,
          stdout, stderr, status, var_name, cpp_code, disk0>>

(***************************************************************************)
(* Bounds of the model.                                                    *)
(***************************************************************************)
\* longest input path enumerated character by character
MaxPathLen == 4
\* most samples (frames x channels) of an input with freely chosen samples
MaxSamples == 4
\* most frames of an input whose samples follow a ramp
MaxLongFrames == 17

(***************************************************************************)
(* Characters and strings.                                                 *)
(***************************************************************************)
Range(s) == {s[i] : i \in 1..Len(s)}

HexDigits == <<"0","1","2","3","4","5","6","7","8","9","A","B","C","D","E","F">>

DecDigits == <<"0","1","2","3","4","5","6","7","8","9">>

\* str(n) of a non-negative integer
RECURSIVE str_int(_)
str_int(n) ==
    IF n < 10 THEN <<DecDigits[n + 1]>>
    ELSE str_int(n \div 10) \o <<DecDigits[(n % 10) + 1]>>

\* str.rfind(c), as a 1-based position, 0 when c does not occur
rfind(s, c) ==
    IF \E i \in 1..Len(s) : s[i] = c
    THEN CHOOSE i \in 1..Len(s) : s[i] = c /\ \A j \in (i+1)..Len(s) : s[j] # c
    ELSE 0

\* the first position of s from i on whose character is outside chars
RECURSIVE first_kept(_, _, _)
first_kept(s, chars, i) ==
    IF i > Len(s) \/ s[i] \notin chars THEN i ELSE first_kept(s, chars, i + 1)

\* the last position of s up to i whose character is outside chars
RECURSIVE last_kept(_, _, _)
last_kept(s, chars, i) ==
    IF i < 1 \/ s[i] \notin chars THEN i ELSE last_kept(s, chars, i - 1)

\* str.strip(chars): the leading and the trailing characters that belong to
\* chars are removed
strip(s, chars) ==
    SubSeq(s, first_kept(s, chars, 1), last_kept(s, chars, Len(s)))

(***************************************************************************)
(* sanitize_var_name and the os.path functions it calls.                   *)
(***************************************************************************)
\* os.path.basename: what follows the last "/"
basename(p) == SubSeq(p, rfind(p, "/") + 1, Len(p))

\* os.path.splitext: the extension starts at the last "." of the final
\* component, unless only dots precede it there
splitext(p) ==
    LET sepIndex == rfind(p, "/")
        dotIndex == rfind(p, ".")
    IN  IF /\ dotIndex > sepIndex
           /\ \E k \in (sepIndex + 1)..(dotIndex - 1) : p[k] # "."
        THEN <<SubSeq(p, 1, dotIndex - 1), SubSeq(p, dotIndex, Len(p))>>
        ELSE <<p, <<>>>>

\* the character class [a-zA-Z0-9_]
WordChars ==
    {"a","b","c","d","e","f","g","h","i","j","k","l","m",
     "n","o","p","q","r","s","t","u","v","w","x","y","z",
     "A","B","C","D","E","F","G","H","I","J","K","L","M",
     "N","O","P","Q","R","S","T","U","V","W","X","Y","Z",
     "0","1","2","3","4","5","6","7","8","9","_"}

\* a mutation of re_sub: the dot counted as a word character
re_sub_keeps_dot(s) ==
    [i \in 1..Len(s) |-> IF s[i] \in WordChars \cup {"."} THEN s[i] ELSE "_"]

\* re.sub(r'[^a-zA-Z0-9_]', '_', s)
re_sub(s) == [i \in 1..Len(s) |-> IF s[i] \in WordChars THEN s[i] ELSE "_"]

sanitize_var_name(filename) ==
    LET base == splitext(basename(filename))[1]
        name == re_sub(base)
    IN  <<"w","a","v","_">> \o name

(***************************************************************************)
(* wav_to_c_array: decoding, channel reduction and rendering.              *)
(***************************************************************************)
\* "h" of struct.unpack: two bytes, low byte first, as a signed 16-bit value
int16_le(lo, hi) ==
    IF lo + 256 * hi >= 32768 THEN lo + 256 * hi - 65536 ELSE lo + 256 * hi

\* struct.unpack(f"<{count}h", data) raises struct.error unless data holds
\* exactly 2 * count bytes
unpack_fits(count, data) == Len(data) = 2 * count

unpack(count, data) ==
    [k \in 1..count |-> int16_le(data[2 * k - 1], data[2 * k])]

\* a mutation of average: the quotient truncated towards zero, as "/" of C
average_truncating(l, r) ==
    IF l + r >= 0 THEN (l + r) \div 2 ELSE -((-(l + r)) \div 2)

\* a mutation of average: the left channel alone
average_left_only(l, r) == l

\* (samples[i] + samples[i+1]) // 2 : Python's // rounds towards minus infinity
average(l, r) == (l + r) \div 2

\* [average(samples[i], samples[i+1]) for i in range(0, len(samples), 2)]
downmix(samples) ==
    [k \in 1..((Len(samples) + 1) \div 2) |->
        average(samples[2 * k - 1], samples[2 * k])]

\* a mutation of sample_bytes: the high byte first
sample_bytes_big_endian(sample) == <<(sample \div 256) % 256, sample % 256>>

\* b1 = sample & 0xFF, b2 = (sample >> 8) & 0xFF on Python's unbounded
\* two's-complement integers: & 0xFF is the residue modulo 256, >> 8 the
\* quotient by 256 rounded towards minus infinity
sample_bytes(sample) == <<sample % 256, (sample \div 256) % 256>>

\* f"0x{b:02X}"
hex_literal(b) == <<"0", "x", HexDigits[(b \div 16) + 1], HexDigits[(b % 16) + 1]>>

\* f"0x{b1:02X}, 0x{b2:02X}, "
hex_entry(sample) ==
    LET b == sample_bytes(sample)
    IN  hex_literal(b[1]) \o <<",", " ">> \o hex_literal(b[2]) \o <<",", " ">>

\* samples per rendered line
SamplesPerLine == 8

\* a mutation of line_break_after: no line break at all
line_break_never(n) == FALSE

\* (i + 1) % 8 == 0, n = i + 1 being the number of samples rendered so far
line_break_after(n) == n % SamplesPerLine = 0

\* "".join(hex_values) once the loop has rendered the first n samples
RECURSIVE hex_values(_, _)
hex_values(samples, n) ==
    IF n = 0 THEN <<>>
    ELSE hex_values(samples, n - 1) \o hex_entry(samples[n])
         \o (IF line_break_after(n) THEN <<"\n", " ", " ", " ", " ">> ELSE <<>>)

\* "    " + "".join(hex_values).strip(",\n ")
array_str(samples) ==
    <<" ", " ", " ", " ">>
    \o strip(hex_values(samples, Len(samples)), {",", "\n", " "})

\* f"{n_frames/frame_rate:.2f}" for frame_rate > 0.  The quotient is rounded
\* to hundredths; a quotient exactly half-way between two hundredths is
\* rounded by Python according to its binary floating-point value, and
\* does not occur for the frame rates and frame counts of this model.
fixed2(n_frames, frame_rate) ==
    LET h == (200 * n_frames + frame_rate) \div (2 * frame_rate)
    IN  str_int(h \div 100) \o <<".">>
        \o <<DecDigits[((h % 100) \div 10) + 1], DecDigits[(h % 10) + 1]>>

\* the literal pieces of the template of cpp_code
T_from == "// Auto-generated from "
T_decl == "\n#include <stddef.h>\n#include <cstdint>\n#include <avr/pgmspace.h>\n\nconst uint8_t "
T_open == "_data[] PROGMEM = {\n"
T_close == "\n};\nconst size_t "
T_size == "_size = sizeof("
T_rate == "_data);\n\n// WAV file parameters:\n// - Sample rate: "
T_chan == " Hz\n// - Channels: "
T_dur == ")\n// - Duration: "
T_total == " seconds\n// - Total samples: "

\* a mutation of total_samples: the number of decoded values before the
\* channel reduction
total_samples_before_downmix(w, samples) == w.n_frames * w.n_channels

\* len(samples) of the metadata block
total_samples(w, samples) == Len(samples)

\* the f-string of cpp_code
template(w, wav_path, array_name, samples) ==
    <<T_from>> \o basename(wav_path)
    \o <<T_decl>> \o array_name
    \o <<T_open>> \o array_str(samples)
    \o <<T_close>> \o array_name
    \o <<T_size>> \o array_name
    \o <<T_rate>> \o str_int(w.frame_rate)
    \o <<T_chan>> \o str_int(w.n_channels)
    \o <<" (", IF w.n_channels = 1 THEN "mono" ELSE "stereo">>
    \o <<T_dur>> \o fixed2(w.n_frames, w.frame_rate)
    \o <<T_total>> \o str_int(total_samples(w, samples))

\* the samples after the channel reduction
mono_samples(w) ==
    LET samples == unpack(w.n_frames * w.n_channels, w.data)
    IN  IF w.n_channels = 2 THEN downmix(samples) ELSE samples

\* a mutation of width_check: only widths above 16 bits rejected
width_check_above_only(w) == w.sample_width > 2

\* if sample_width != 2
width_check(w) == w.sample_width # 2

Returned(text) == [outcome |-> "return", text |-> text]
Exited(message) == [outcome |-> "exit", text |-> message]

\* print(f"Error processing WAV file: {str(e)}", file=sys.stderr); sys.exit(1)
processing_error(cause) == Exited(<<"Error processing WAV file: ", cause>>)

\* The result of wav_to_c_array(wav_path, array_name) on the file w: either
\* the returned text, or the diagnostic printed before sys.exit(1).
\* sys.exit raises SystemExit, which no "except Exception" catches.
wav_to_c_array(w, wav_path, array_name) ==
    IF ~w.valid THEN processing_error("wave.Error")
    ELSE IF width_check(w)
    THEN Exited(<<"Error: Only 16-bit PCM WAV files are supported (got ">>
                \o str_int(w.sample_width * 8) \o <<"-bit)">>)
    ELSE IF ~unpack_fits(w.n_frames * w.n_channels, w.data)
    THEN processing_error("struct.error")
    ELSE IF w.frame_rate = 0
    THEN processing_error("division by zero")
    ELSE Returned(template(w, wav_path, array_name, mono_samples(w)))

(***************************************************************************)
(* The os.path functions main calls.                                       *)
(***************************************************************************)
\* the home directory and the current directory of the process
Home == <<"/", "h">>
Cwd == <<"/", "w">>

\* os.path.expanduser: a leading "~" that ends the path or is followed by
\* "/" is replaced by the home directory
expanduser(p) ==
    IF p # <<>> /\ p[1] = "~" /\ (Len(p) = 1 \/ p[2] = "/")
    THEN Home \o Tail(p) ELSE p

\* os.path.expandvars: a reference to a variable the environment does not
\* define is left unchanged, and the environment defines none
expandvars(p) == p

\* str.split("/"): the pieces between consecutive slashes
split(p) ==
    LET cuts == {0, Len(p) + 1} \cup {i \in 1..Len(p) : p[i] = "/"}
        cut(k) == CHOOSE i \in cuts : Cardinality({j \in cuts : j < i}) = k
    IN  [k \in 1..(Cardinality(cuts) - 1) |->
            SubSeq(p, cut(k - 1) + 1, cut(k) - 1)]

\* "/".join of the first n of comps
RECURSIVE join_slash(_, _)
join_slash(comps, n) ==
    IF n = 0 THEN <<>>
    ELSE IF n = 1 THEN comps[1]
    ELSE join_slash(comps, n - 1) \o <<"/">> \o comps[n]

\* the components os.path.normpath keeps: not the empty ones, not "."
kept_component(comp) == comp # <<>> /\ comp # <<".">>

\* os.path.normpath, for paths that have no ".." component and do not
\* begin with exactly two slashes
normpath(p) ==
    LET absolute == p # <<>> /\ p[1] = "/"
        comps == SelectSeq(split(p), kept_component)
        kept == join_slash(comps, Len(comps))
    IN  IF absolute THEN <<"/">> \o kept
        ELSE IF kept = <<>> THEN <<".">> ELSE kept

\* os.path.abspath
abspath(p) ==
    IF p # <<>> /\ p[1] = "/" THEN normpath(p)
    ELSE normpath(Cwd \o <<"/">> \o p)

\* os.path.join(a, b) for a relative b
path_join(a, b) ==
    IF a = <<>> \/ a[Len(a)] = "/" THEN a \o b ELSE a \o <<"/">> \o b

(***************************************************************************)
(* The inputs of a run.                                                    *)
(***************************************************************************)
SeqsUpTo(S, n) == UNION {[1..k -> S] : k \in 0..n}

\* the bytes of a WAV data chunk holding the 16-bit samples pcm
RECURSIVE chunk_bytes(_)
chunk_bytes(pcm) ==
    IF pcm = <<>> THEN <<>>
    ELSE LET u == IF Head(pcm) < 0 THEN Head(pcm) + 65536 ELSE Head(pcm)
         IN  <<u % 256, u \div 256>> \o chunk_bytes(Tail(pcm))

\* a WAV file of 16-bit samples; lost is the number of bytes missing at the
\* end of its data chunk (a truncated file)
Wav16(channels, rate, pcm, lost) ==
    [exists |-> TRUE, valid |-> TRUE, n_channels |-> channels,
     sample_width |-> 2, frame_rate |-> rate,
     n_frames |-> Len(pcm) \div channels, pcm |-> pcm,
     data |-> SubSeq(chunk_bytes(pcm), 1, 2 * Len(pcm) - lost)]

\* a WAV file of another sample width, all of its samples zero
WavOther(channels, width, rate, frames) ==
    [exists |-> TRUE, valid |-> TRUE, n_channels |-> channels,
     sample_width |-> width, frame_rate |-> rate,
     n_frames |-> frames, pcm |-> [k \in 1..(frames * channels) |-> 0],
     data |-> [k \in 1..(frames * channels * width) |-> 0]]

\* a file that is no WAV container
NotWav == [Wav16(1, 8000, <<>>, 0) EXCEPT !.valid = FALSE]

\* a path that names no file
Missing == [NotWav EXCEPT !.exists = FALSE]

SampleValues == {-32768, -1000, -1, 1, 1000}

ChannelCounts == {1, 2, 3}

FrameRates == {0, 8000, 44100}

\* every sample sequence up to MaxSamples samples
ShortWavs ==
    UNION {{Wav16(ch, 8000, pcm, 0) :
                pcm \in {q \in SeqsUpTo(SampleValues, MaxSamples) :
                            Len(q) % ch = 0}} : ch \in ChannelCounts}

\* inputs that reach the largest sample value and zero
ExtremeWavs ==
    { Wav16(1, 8000, <<0, 32767, -32768>>, 0),
      Wav16(2, 8000, <<-1000, 1, 32767, 32767>>, 0),
      Wav16(2, 8000, <<32767, -32768, 0, -1, 0, 0>>, 0),
      Wav16(3, 8000, <<32767, 0, -1, 0, 32767, 1>>, 0) }

\* files whose data chunk ends too early
TruncatedWavs ==
    {Wav16(ch, 8000, pcm, lost) :
        ch \in {1, 2}, pcm \in [1..2 -> {-1, 1000}], lost \in {1, 2, 3}}

\* the k-th sample of a ramp, wrapped into the signed 16-bit range
RampStep == 259
ramp(start, n) ==
    [k \in 1..n |-> ((start + RampStep * (k - 1) + 32768) % 65536) - 32768]

\* longer inputs: up to MaxLongFrames frames of a ramp
LongWavs ==
    {Wav16(ch, rate, ramp(start, ch * frames), 0) :
        ch \in {1, 2}, rate \in FrameRates,
        start \in {-3000, 32000}, frames \in 0..MaxLongFrames}

\* inputs of 8, 24 and 32 bits
OtherWidthWavs ==
    {WavOther(ch, width, 8000, frames) :
        ch \in {1, 2}, width \in {1, 3, 4}, frames \in 0..2}

NoFiles == [p \in {} |-> <<>>]

NoOutput == [given |-> FALSE, value |-> <<>>]

\* array_name="sound_data"
default_array_name == <<"s","o","u","n","d","_","d","a","t","a">>

(***************************************************************************)
(* The run of main, one action per step that can end it.                   *)
(***************************************************************************)
\* a mutation of Fail: the run ends with status zero
Fail_exit_zero(message) ==
    /\ stderr' = Append(stderr, message)
    /\ status' = <<0>>
    /\ pc' = "exit"

\* print(message, file=sys.stderr); sys.exit(1)
Fail(message) ==
    /\ stderr' = Append(stderr, message)
    /\ status' = <<1>>
    /\ pc' = "exit"

\* print(f"Error: {str(e)}", file=sys.stderr); sys.exit(1)
error_handler(cause) == Fail(<<"Error: ", cause>>)

\* a mutation of default_output: no default
default_output_none == <<>>

\* default="./lib/WavData/"
default_output == <<".","/","l","i","b","/","W","a","v","D","a","t","a","/">>

\* args = parser.parse_args()
ParseArgs ==
    /\ pc = "parse_args"
    /\ args_output' = IF opt_output.given THEN opt_output.value
                      ELSE default_output
    /\ pc' = "check_input"
    /\ UNCHANGED <<input_file, opt_output, wav, dirs, files, stdout, stderr,
                   status, var_name, cpp_code, disk0>>

filename == expanduser(expandvars(input_file))

\* if not os.path.exists(filename)
CheckInput ==
    /\ pc = "check_input"
    /\ IF ~wav.exists
       THEN Fail(<<"Error: Input file '">> \o filename \o <<"' not found">>)
       ELSE pc' = "convert" /\ UNCHANGED <<stderr, status>>
    /\ UNCHANGED <<input_file, opt_output, args_output, wav, dirs, files,
                   stdout, var_name, cpp_code, disk0>>

\* var_name = sanitize_var_name(args.input_file)
\* cpp_code = wav_to_c_array(filename, var_name)
Convert ==
    /\ pc = "convert"
    /\ var_name' = sanitize_var_name(input_file)
    /\ LET r == wav_to_c_array(wav, filename, var_name')
       IN  IF r.outcome = "exit"
           THEN Fail(r.text) /\ UNCHANGED cpp_code
           ELSE /\ cpp_code' = r.text
                /\ pc' = IF args_output # <<>> THEN "makedirs" ELSE "print"
                /\ UNCHANGED <<stderr, status>>
    /\ UNCHANGED <<input_file, opt_output, args_output, wav, dirs, files,
                   stdout, disk0>>

dir_name == abspath(args_output)

output_filename == var_name \o <<".", "c", "p", "p">>

output_path == path_join(dir_name, output_filename)

\* os.makedirs(dir_name, exist_ok=True): succeeds, or raises OSError when
\* the directory is absent and cannot be created
MakeDirs ==
    /\ pc = "makedirs"
    /\ \/ /\ dirs' = dirs \cup {dir_name}
          /\ pc' = "open"
          /\ UNCHANGED <<stderr, status>>
       \/ /\ dir_name \notin dirs
          /\ error_handler("OSError: makedirs")
          /\ UNCHANGED dirs
    /\ UNCHANGED <<input_file, opt_output, args_output, wav, files, stdout,
                   var_name, cpp_code, disk0>>

\* open(os.path.join(dir_name, output_filename), 'w'): creates the file, or
\* empties it when it exists; or raises OSError and leaves it alone
OpenOutput ==
    /\ pc = "open"
    /\ \/ /\ files' = (output_path :> <<>>) @@ files
          /\ pc' = "write"
          /\ UNCHANGED <<stderr, status>>
       \/ /\ error_handler("OSError: open")
          /\ UNCHANGED files
    /\ UNCHANGED <<input_file, opt_output, args_output, wav, dirs, stdout,
                   var_name, cpp_code, disk0>>

\* the lengths at which a failing write is taken to stop
partial_lengths(text) == {0, Len(text) \div 2, Len(text) - 1}

\* f.write(cpp_code) and the close of the file: all of the text reaches the
\* file, or OSError is raised with only a part of it there
WriteOutput ==
    /\ pc = "write"
    /\ \/ /\ files' = (output_path :> cpp_code) @@ files
          /\ pc' = "confirm"
          /\ UNCHANGED <<stderr, status>>
       \/ \E k \in partial_lengths(cpp_code) :
            /\ files' = (output_path :> SubSeq(cpp_code, 1, k)) @@ files
            /\ error_handler("OSError: write")
    /\ UNCHANGED <<input_file, opt_output, args_output, wav, dirs, stdout,
                   var_name, cpp_code, disk0>>

\* print(f"Successfully converted {filename} to {dir_name}/{output_filename}")
Confirm ==
    /\ pc = "confirm"
    /\ stdout' = Append(stdout, <<"Successfully converted ">> \o filename
                                \o <<" to ">> \o dir_name \o <<"/">>
                                \o output_filename)
    /\ status' = <<0>>
    /\ pc' = "exit"
    /\ UNCHANGED <<input_file, opt_output, args_output, wav, dirs, files,
                   stderr, var_name, cpp_code, disk0>>

\* print(cpp_code)
PrintCode ==
    /\ pc = "print"
    /\ stdout' = Append(stdout, cpp_code)
    /\ status' = <<0>>
    /\ pc' = "exit"
    /\ UNCHANGED <<input_file, opt_output, args_output, wav, dirs, files,
                   stderr, var_name, cpp_code, disk0>>

\* the command lines and files of the runs of main
MainPaths ==
    { <<"c",".","w","a","v">>,
      <<"/","a","/","b","/","c",".","w","a","v">>,
      <<"~","/","x"," ","1",".","w","a","v">> }

MainOptions ==
    { NoOutput,
      [given |-> TRUE, value |-> <<>>],
      [given |-> TRUE, value |-> <<"o","u","t">>],
      [given |-> TRUE, value |-> <<"/","t","/",".","/","o","/">>] }

MainWavs ==
    { Missing, NotWav,
      Wav16(1, 8000, <<1, -1, 1000, -1000>>, 0),
      Wav16(1, 8000, <<>>, 0),
      Wav16(2, 44100, <<-1, -2, 32767, 32767, -32768, 5>>, 0),
      Wav16(3, 8000, <<7, 8, 9>>, 0),
      Wav16(2, 8000, <<1, 2>>, 1),
      Wav16(1, 0, <<3>>, 0),
      WavOther(1, 3, 8000, 2),
      WavOther(2, 1, 8000, 1) }

\* what the output file holds when it is there before the run
OldText == <<"// an earlier run">>

Init ==
    /\ pc = "parse_args"
    /\ input_file \in MainPaths
    /\ opt_output \in MainOptions
    /\ args_output = <<>>
    /\ wav \in MainWavs
    /\ LET d == abspath(IF opt_output.given THEN opt_output.value
                        ELSE default_output)
           f == path_join(d, sanitize_var_name(input_file)
                             \o <<".", "c", "p", "p">>)
       IN  \/ dirs = {} /\ files = NoFiles
           \/ dirs = {d} /\ files = NoFiles
           \/ dirs = {d} /\ files = (f :> OldText)
    /\ stdout = <<>>
    /\ stderr = <<>>
    /\ status = <<>>
    /\ var_name = <<>>
    /\ cpp_code = <<>>
    /\ disk0 = [dirs |-> dirs, files |-> files]

Next ==
    \/ ParseArgs
    \/ CheckInput
    \/ Convert
    \/ MakeDirs
    \/ OpenOutput
    \/ WriteOutput
    \/ Confirm
    \/ PrintCode

Spec == Init /\ [][Next]_vars

\* main runs as one sequential process that is always scheduled: a step
\* that can be taken is taken
FairSpec == Spec /\ WF_vars(Next)

(***************************************************************************)
(* wav_to_c_array called on its own, with the default array name.          *)
(***************************************************************************)
CallWavToCArray ==
    /\ pc = "call_wav_to_c_array"
    /\ LET r == wav_to_c_array(wav, input_file, var_name)
       IN  IF r.outcome = "exit"
           THEN Fail(r.text) /\ UNCHANGED cpp_code
           ELSE /\ cpp_code' = r.text
                /\ pc' = "returned"
                /\ UNCHANGED <<stderr, status>>
    /\ UNCHANGED <<input_file, opt_output, args_output, wav, dirs, files,
                   stdout, var_name, disk0>>

InitConvert ==
    /\ pc = "call_wav_to_c_array"
    /\ input_file = <<"s","/","b","e","e","p",".","w","a","v">>
    /\ opt_output = NoOutput
    /\ args_output = <<>>
    /\ wav \in ShortWavs \cup ExtremeWavs \cup TruncatedWavs \cup LongWavs
                \cup OtherWidthWavs \cup {NotWav}
    /\ dirs = {}
    /\ files = NoFiles
    /\ stdout = <<>>
    /\ stderr = <<>>
    /\ status = <<>>
    /\ var_name = default_array_name
    /\ cpp_code = <<>>
    /\ disk0 = [dirs |-> dirs, files |-> files]

NextConvert == CallWavToCArray

SpecConvert == InitConvert /\ [][NextConvert]_vars

(***************************************************************************)
(* sanitize_var_name called on its own.                                    *)
(***************************************************************************)
CallSanitize ==
    /\ pc = "call_sanitize_var_name"
    /\ var_name' = sanitize_var_name(input_file)
    /\ pc' = "returned"
    /\ UNCHANGED <<input_file, opt_output, args_output, wav, dirs, files,
                   stdout, stderr, status, cpp_code, disk0>>

PathChars == {"c", "7", "_", ".", "/", " "}

MySong == <<"M","y"," ","S","o","n","g"," ","(","2","0","2","4",")",
            ".","w","a","v">>

ABC == <<"/","a","/","b","/","c",".","w","a","v">>

PathInputs ==
    SeqsUpTo(PathChars, MaxPathLen)
    \cup { MySong, ABC,
           <<"d","i","r",".","d","/","t","a","k","e",".","2",".","W","A","V">>,
           <<".","/",".","h","i","d","d","e","n">>,
           <<"s","o","n","g","s","/">> }

InitSanitize ==
    /\ pc = "call_sanitize_var_name"
    /\ input_file \in PathInputs
    /\ opt_output = NoOutput
    /\ args_output = <<>>
    /\ wav = Missing
    /\ dirs = {}
    /\ files = NoFiles
    /\ stdout = <<>>
    /\ stderr = <<>>
    /\ status = <<>>
    /\ var_name = <<>>
    /\ cpp_code = <<>>
    /\ disk0 = [dirs |-> dirs, files |-> files]

NextSanitize == CallSanitize

SpecSanitize == InitSanitize /\ [][NextSanitize]_vars

(***************************************************************************)
(* Reading a generated text back, as a C++ compiler or a reader would.     *)
(***************************************************************************)
\* where the template piece tok stands in text
PieceAt(text, tok) == CHOOSE i \in 1..Len(text) : text[i] = tok

\* the initialiser of the array: what stands between "{\n" and "\n};"
ArrayBody(text) ==
    SubSeq(text, PieceAt(text, T_open) + 1, PieceAt(text, T_close) - 1)

IsHexDigit(c) == \E v \in 1..16 : HexDigits[v] = c
HexValue(c) == (CHOOSE v \in 1..16 : HexDigits[v] = c) - 1

\* whether a byte literal 0xHH starts at position i of s
LiteralAt(s, i) ==
    /\ i + 3 <= Len(s)
    /\ s[i] = "0" /\ s[i + 1] = "x"
    /\ IsHexDigit(s[i + 2]) /\ IsHexDigit(s[i + 3])

\* the positions of s at which a byte literal starts
LiteralStarts(s) == {i \in 1..Len(s) : LiteralAt(s, i)}

\* the values of the byte literals of s, in the order they stand in
ByteLiterals(s) ==
    LET starts == LiteralStarts(s)
        nth(k) == CHOOSE i \in starts : Cardinality({j \in starts : j < i}) = k - 1
    IN  [k \in 1..Cardinality(starts) |->
            16 * HexValue(s[nth(k) + 2]) + HexValue(s[nth(k) + 3])]

\* the characters of s that belong to no byte literal
BetweenLiterals(s) ==
    {s[i] : i \in {j \in 1..Len(s) :
                      \A d \in 0..3 : (j - d) \notin LiteralStarts(s)}}

\* the lines of s
RECURSIVE LinesOf(_)
LinesOf(s) ==
    IF rfind(s, "\n") = 0 THEN <<s>>
    ELSE Append(LinesOf(SubSeq(s, 1, rfind(s, "\n") - 1)),
                SubSeq(s, rfind(s, "\n") + 1, Len(s)))

\* bytes read in pairs as signed little-endian 16-bit integers
ReadInt16LE(bytes) ==
    [k \in 1..(Len(bytes) \div 2) |->
        LET u == bytes[2 * k - 1] + 256 * bytes[2 * k]
        IN  IF u > 32767 THEN u - 65536 ELSE u]

\* the two's-complement encoding of a signed 16-bit value, low byte first
TwosComplementLE(v) ==
    LET u == IF v < 0 THEN 65536 + v ELSE v
    IN  <<u - 256 * (u \div 256), u \div 256>>

RECURSIVE EncodedStream(_)
EncodedStream(values) ==
    IF values = <<>> THEN <<>>
    ELSE TwosComplementLE(Head(values)) \o EncodedStream(Tail(values))

\* the number a sequence of decimal digits writes
RECURSIVE DecimalValue(_)
DecimalValue(digits) ==
    IF digits = <<>> THEN 0
    ELSE 10 * DecimalValue(SubSeq(digits, 1, Len(digits) - 1))
         + (CHOOSE v \in 0..9 : DecDigits[v + 1] = digits[Len(digits)])

\* the count the metadata block reports as "Total samples"
ReportedTotal(text) ==
    DecimalValue(SubSeq(text, PieceAt(text, T_total) + 1, Len(text)))

\* the bytes and the samples a returned text declares
EmittedBytes == ByteLiterals(ArrayBody(cpp_code))
EmittedSamples == ReadInt16LE(EmittedBytes)

Int16 == -32768..32767

(***************************************************************************)
(* Claims about wav_to_c_array, checked under SpecConvert.                 *)
(***************************************************************************)
\* C1: for a mono 16-bit input the emitted bytes are, sample by sample, the
\* low byte then the high byte of the two's-complement value, so that
\* reading them back in pairs as signed little-endian 16-bit integers gives
\* the original samples; <<1, -1, 1000, -1000>> gives
\* 01 00 FF FF E8 03 18 FC.
C1_MonoRoundTrip ==
    (pc = "returned" /\ wav.n_channels = 1) =>
        /\ Len(EmittedBytes) = 2 * Len(wav.pcm)
        /\ \A k \in 1..Len(wav.pcm) :
              <<EmittedBytes[2 * k - 1], EmittedBytes[2 * k]>>
                  = TwosComplementLE(wav.pcm[k])
        /\ EmittedSamples = wav.pcm
        /\ (wav.pcm = <<1, -1, 1000, -1000>> =>
               EmittedBytes = <<1, 0, 255, 255, 232, 3, 24, 252>>)

C1_Witness ==
    /\ pc = "returned"
    /\ wav.n_channels = 1
    /\ wav.pcm = <<1, -1, 1000, -1000>>
    /\ EmittedBytes = <<1, 0, 255, 255, 232, 3, 24, 252>>

\* C2: for a stereo 16-bit input of frame_count frames exactly frame_count
\* samples are emitted, and the k-th is floor((L_k + R_k) / 2) for the k-th
\* left/right pair of the interleaved input.
C2_StereoAverage ==
    (pc = "returned" /\ wav.n_channels = 2) =>
        /\ Len(EmittedBytes) = 2 * wav.n_frames
        /\ Len(EmittedSamples) = wav.n_frames
        /\ ReportedTotal(cpp_code) = wav.n_frames
        /\ \A k \in 1..wav.n_frames :
              LET sum == wav.pcm[2 * k - 1] + wav.pcm[2 * k]
              IN  /\ 2 * EmittedSamples[k] <= sum
                  /\ sum < 2 * EmittedSamples[k] + 2

C2_Witness ==
    /\ pc = "returned"
    /\ wav.n_channels = 2
    /\ wav.pcm = <<-1000, 1, 32767, 32767>>
    /\ EmittedSamples = <<-500, 32767>>

\* C3: for every accepted input, of any channel count and any number of
\* frames, the array holds exactly twice as many byte literals as the
\* number of emitted samples, which is the count reported as "Total
\* samples"; sizeof of the array is that number of bytes.
C3_SizeIsTwiceSamples ==
    pc = "returned" =>
        /\ Len(EmittedBytes) = 2 * ReportedTotal(cpp_code)
        /\ Len(EmittedBytes) = 2 * Len(mono_samples(wav))

C3_Witness ==
    /\ pc = "returned"
    /\ wav.n_channels = 3
    /\ wav.n_frames = 1
    /\ ReportedTotal(cpp_code) = 3
    /\ Len(EmittedBytes) = 6

\* the number of lines that hold n samples, eight to a line
LinesNeeded(n) == IF n = 0 THEN 1 ELSE (n + 7) \div 8

\* C4: for a sample sequence of any length (0, not a multiple of 8, a
\* multiple of 8) the rendered array text, after the strip of trailing
\* separators, is broken into lines after every 8th sample and nowhere
\* else: every line but the last holds exactly 16 byte literals, and the
\* last, which the "\n};" of the template ends, at most 16.  The byte
\* literals, read in order with commas, blanks and line breaks ignored, are
\* the encoded byte stream, none dropped, duplicated or reordered.
C4_LineWrapping ==
    pc = "returned" =>
        LET body == ArrayBody(cpp_code)
            lines == LinesOf(body)
            n == Len(mono_samples(wav))
        IN  /\ ByteLiterals(body) = EncodedStream(mono_samples(wav))
            /\ BetweenLiterals(body) \subseteq {",", " ", "\n"}
            /\ \A i \in LiteralStarts(body) : (i + 3) \notin LiteralStarts(body)
            /\ body[Len(body)] \notin {",", "\n"}
            /\ n > 0 => body[Len(body)] # " "
            /\ Len(lines) = LinesNeeded(n)
            /\ \A i \in 1..Len(lines) :
                  /\ Len(ByteLiterals(lines[i])) <= 16
                  /\ i < Len(lines) => Len(ByteLiterals(lines[i])) = 16
                  /\ SubSeq(lines[i], 1, 4) = <<" ", " ", " ", " ">>

C4_Witness ==
    /\ pc = "returned"
    /\ Len(mono_samples(wav)) = 16
    /\ Len(LinesOf(ArrayBody(cpp_code))) = 2
    /\ Len(ByteLiterals(LinesOf(ArrayBody(cpp_code))[2])) = 16

\* the quotient of a by 2 with the fractional part discarded
TruncatedHalf(a) == IF a >= 0 THEN a \div 2 ELSE -((-a) \div 2)

\* C10 as stated: each mono value of the downmix is the quotient of L + R
\* by 2 under truncating division, also when the sum is negative and odd,
\* and lies in the signed 16-bit range.
C10_TruncatedAverage ==
    (pc = "returned" /\ wav.n_channels = 2) =>
        \A k \in 1..wav.n_frames :
            /\ mono_samples(wav)[k]
                   = TruncatedHalf(wav.pcm[2 * k - 1] + wav.pcm[2 * k])
            /\ mono_samples(wav)[k] \in Int16

\* C10, amended: each mono value of the downmix is the quotient of L + R by
\* 2 rounded towards minus infinity: the truncated quotient when the sum is
\* non-negative or even, one less when the sum is negative and odd; it lies
\* in the signed 16-bit range and is the value the array encodes.
C10_FlooredAverage ==
    (pc = "returned" /\ wav.n_channels = 2) =>
        /\ EmittedSamples = mono_samples(wav)
        /\ \A k \in 1..wav.n_frames :
              LET sum == wav.pcm[2 * k - 1] + wav.pcm[2 * k]
              IN  /\ mono_samples(wav)[k]
                         = IF sum < 0 /\ sum % 2 = 1
                           THEN TruncatedHalf(sum) - 1
                           ELSE TruncatedHalf(sum)
                  /\ mono_samples(wav)[k] \in Int16

C10_Witness ==
    /\ pc = "returned"
    /\ wav.n_channels = 2
    /\ wav.pcm = <<-1, -32768, -1000, 1>>
    /\ EmittedSamples = <<-16385, -500>>

(***************************************************************************)
(* Claim about sanitize_var_name, checked under SpecSanitize.              *)
(***************************************************************************)
LowerCase == <<"a","b","c","d","e","f","g","h","i","j","k","l","m",
               "n","o","p","q","r","s","t","u","v","w","x","y","z">>
UpperCase == <<"A","B","C","D","E","F","G","H","I","J","K","L","M",
               "N","O","P","Q","R","S","T","U","V","W","X","Y","Z">>

\* a letter, a digit or the underscore
IsIdentifierChar(c) ==
    \/ c \in Range(LowerCase) \cup Range(UpperCase)
    \/ c \in Range(DecDigits)
    \/ c = "_"

\* p[i+1..j] is the final component of p without its extension: the
\* directory part p[1..i] is empty or ends with the last "/" of p, and the
\* extension p[j+1..] is empty, or starts at the last "." of the final
\* component, a "." that something other than dots precedes there
IsStem(p, i, j) ==
    LET name == SubSeq(p, i + 1, Len(p))
        stem == SubSeq(p, i + 1, j)
        ext == SubSeq(p, j + 1, Len(p))
        has_ext == \E a, b \in 1..Len(name) :
                       a < b /\ name[a] # "." /\ name[b] = "."
    IN  /\ i = 0 \/ p[i] = "/"
        /\ "/" \notin Range(name)
        /\ IF has_ext
           THEN ext # <<>> /\ ext[1] = "." /\ "." \notin Range(Tail(ext))
           ELSE ext = <<>>

\* C9: sanitize_var_name returns "wav_" followed by the final component of
\* the path, directories and extension stripped, with every character
\* outside [A-Za-z0-9_] replaced one-for-one by "_"; the result holds only
\* letters, digits and underscores; "My Song (2024).wav" gives
\* "wav_My_Song__2024_" and "/a/b/c.wav" gives "wav_c".
C9_Sanitize ==
    pc = "returned" =>
        /\ \E i \in 0..Len(input_file) : \E j \in i..Len(input_file) :
              /\ IsStem(input_file, i, j)
              /\ Len(var_name) = 4 + (j - i)
              /\ SubSeq(var_name, 1, 4) = <<"w", "a", "v", "_">>
              /\ \A k \in 1..(j - i) :
                    var_name[4 + k] =
                        IF IsIdentifierChar(input_file[i + k])
                        THEN input_file[i + k] ELSE "_"
        /\ \A k \in 1..Len(var_name) : IsIdentifierChar(var_name[k])
        /\ (input_file = MySong =>
               var_name = <<"w","a","v","_","M","y","_","S","o","n","g",
                            "_","_","2","0","2","4","_">>)
        /\ (input_file = ABC => var_name = <<"w","a","v","_","c">>)

C9_Witness ==
    /\ pc = "returned"
    /\ input_file = MySong
    /\ var_name = <<"w","a","v","_","M","y","_","S","o","n","g",
                    "_","_","2","0","2","4","_">>

(***************************************************************************)
(* Claims about the run of main, checked under Spec.                       *)
(***************************************************************************)
DiskUntouched == dirs = disk0.dirs /\ files = disk0.files

\* the text cpp_code is the whole content of {identifier}.cpp in directory out
WrittenInto(out) ==
    LET d == abspath(out)
        f == path_join(d, sanitize_var_name(input_file) \o <<".", "c", "p", "p">>)
    IN  /\ d \in dirs
        /\ f \in DOMAIN files
        /\ files[f] = cpp_code
        /\ cpp_code \notin Range(stdout)

\* the text cpp_code is printed, and the disk is as it was
PrintedOnly == stdout = <<cpp_code>> /\ DiskUntouched

\* C5: when the input reports a sample width other than 16 bits the run
\* fails before producing any output: one diagnostic naming the bit depth
\* found goes to the error stream, the status is non-zero, no directory is
\* created, no file opened or written, nothing printed to standard output,
\* and neither exception handler takes the failure over.
C5_WidthRejected ==
    (wav.exists /\ wav.valid /\ wav.sample_width # 2) =>
        /\ DiskUntouched
        /\ stdout = <<>>
        /\ pc \in {"parse_args", "check_input", "convert", "exit"}
        /\ pc # "exit" => stderr = <<>> /\ status = <<>>
        /\ pc = "exit" =>
              /\ status = <<1>>
              /\ Len(stderr) = 1
              /\ LET m == stderr[1]
                 IN  /\ m[1] = "Error: Only 16-bit PCM WAV files are supported (got "
                     /\ m[Len(m)] = "-bit)"
                     /\ DecimalValue(SubSeq(m, 2, Len(m) - 1))
                            = 8 * wav.sample_width

C5_Witness ==
    /\ pc = "exit"
    /\ wav.sample_width = 3
    /\ status = <<1>>
    /\ stderr = << <<"Error: Only 16-bit PCM WAV files are supported (got ",
                     "2", "4", "-bit)">> >>

\* C6: there is no partial-output state: whatever step fails, when the run
\* has ended either the complete text is in the output file, or nothing was
\* written to the disk (no directory created, no file created, emptied or
\* partly written).
C6_NoPartialOutput ==
    pc = "exit" =>
        \/ DiskUntouched
        \/ /\ cpp_code # <<>>
           /\ output_path \in DOMAIN files
           /\ files[output_path] = cpp_code

\* C7 as stated: with an output directory given the text is written to
\* {identifier}.cpp inside it (created if absent); with none given the text
\* is printed to standard output and no file or directory is created.
C7_OutputFollowsOption ==
    (pc = "exit" /\ status = <<0>>) =>
        IF opt_output.given /\ opt_output.value # <<>>
        THEN WrittenInto(opt_output.value)
        ELSE PrintedOnly

\* C7, amended: with a non-empty output directory given the text is written
\* verbatim to {identifier}.cpp inside it (created if absent); with the
\* option left out the same is done in the default directory
\* ./lib/WavData/; only with the option given as the empty string is the
\* text printed to standard output and no file or directory created.
C7_OutputFollowsOptionOrDefault ==
    (pc = "exit" /\ status = <<0>>) =>
        IF ~opt_output.given
        THEN WrittenInto(<<".","/","l","i","b","/","W","a","v","D","a","t","a","/">>)
        ELSE IF opt_output.value # <<>>
        THEN WrittenInto(opt_output.value)
        ELSE PrintedOnly

C7_Witness ==
    /\ pc = "exit"
    /\ status = <<0>>
    /\ ~opt_output.given
    /\ disk0.dirs = {}
    /\ dirs = {<<"/","w","/","l","i","b","/","W","a","v","D","a","t","a">>}
    /\ input_file = <<"c",".","w","a","v">>
    /\ files[<<"/","w","/","l","i","b","/","W","a","v","D","a","t","a","/",
               "w","a","v","_","c",".","c","p","p">>] = cpp_code
    /\ cpp_code # <<>>

\* the input conditions under which a run must fail
InputFails ==
    \/ ~wav.exists
    \/ ~wav.valid
    \/ wav.sample_width # 2
    \/ Len(wav.data) # 2 * wav.n_frames * wav.n_channels
    \/ wav.frame_rate = 0

StepRank ==
    [p \in {"parse_args", "check_input", "convert", "makedirs", "open",
            "write", "confirm", "print", "exit"} |->
        CASE p = "parse_args" -> 1
          [] p = "check_input" -> 2
          [] p = "convert" -> 3
          [] p = "makedirs" -> 4
          [] p = "open" -> 5
          [] p = "write" -> 6
          [] p \in {"confirm", "print"} -> 7
          [] p = "exit" -> 8]

C8_Ended ==
    /\ (pc = "exit") <=> (status # <<>>)
    /\ status \in {<<>>, <<0>>, <<1>>}
    /\ pc \in DOMAIN StepRank
    /\ (pc = "exit" /\ InputFails) => status = <<1>>
    /\ status # <<1>> => stderr = <<>>
    /\ status = <<1>> =>
          /\ Len(stderr) = 1
          /\ stderr[1][1] \in
                {"Error: Input file '",
                 "Error: Only 16-bit PCM WAV files are supported (got ",
                 "Error processing WAV file: ",
                 "Error: "}
          /\ stdout = <<>>
    /\ status = <<0>> =>
          /\ ~InputFails
          /\ IF args_output # <<>>
             THEN stdout = << <<"Successfully converted ">> \o filename
                              \o <<" to ">> \o abspath(args_output) \o <<"/">>
                              \o var_name \o <<".", "c", "p", "p">> >>
             ELSE stdout = <<cpp_code>>
    /\ (stdout # <<>> /\ args_output # <<>>) =>
          /\ output_path \in DOMAIN files
          /\ files[output_path] = cpp_code

\* C8: every run ends in one of two ways.  A missing input, an unsupported
\* sample width, another decode error or an output directory or file error
\* prints one diagnostic to the error stream and ends the run with a
\* non-zero status, with no step taken twice and no success message.
\* Otherwise the run ends with status zero and, when writing to a
\* directory, the confirmation naming the resolved output path is printed
\* only once the file has been written.
C8_Termination ==
    /\ []C8_Ended
    /\ [][StepRank[pc'] > StepRank[pc]]_vars
    /\ <>(pc = "exit")

C8_Witness ==
    /\ pc = "exit"
    /\ status = <<0>>
    /\ args_output = <<"/","t","/",".","/","o","/">>
    /\ input_file = <<"~","/","x"," ","1",".","w","a","v">>
    /\ stdout = << <<"Successfully converted ",
                     "/","h","/","x"," ","1",".","w","a","v",
                     " to ", "/","t","/","o", "/",
                     "w","a","v","_","x","_","1",".","c","p","p">> >>
    /\ files[<<"/","t","/","o","/","w","a","v","_","x","_","1",
               ".","c","p","p">>] = cpp_code

====
